---- MODULE Spec2Model ----
(***************************************************************************)
(* Model of monty/cogs/monty_cog.py: the urban-dictionary lookup flow      *)
(* (fetch_urban_dictionary_definition, send_urban_dictionary_definition,   *)
(* UbanDictionaryButton, MontyCog.urban) and the MontyCog.mock action.     *)
(*                                                                         *)
(* A text (a Python str) is a sequence of one-character strings.  The      *)
(* case mappings follow str.lower / str.upper, which map one character to  *)
(* a string that may be longer than one character.                         *)
(***************************************************************************)
EXTENDS Naturals, Sequences, FiniteSets

\* ---------------------------------------------------------------- bounds

\* Longest definition / example text enumerated for the extraction checks.
MaxBody == 3
MaxExample == 3
\* Longest message content enumerated for the mock checks.
MaxContent == 4
\* Number of flow steps (handler invocations) in one behaviour.
MaxInstances == 3

\* ------------------------------------------------------------ characters

\* Characters of the definition and example texts enumerated.
TermChars == {"a", "A", "[", "]"}
\* Characters of mocked message contents.
MockChars == {"a", "A", "1", "ss"}

\* str.isalpha for one character ("ss" stands for U+00DF, the sharp s).
isalpha(c) == c \in {"a", "A", "b", "B", "S", "ss"}

\* str.lower for one character.
lower_char(c) ==
    CASE c = "A" -> <<"a">>
      [] c = "B" -> <<"b">>
      [] c = "S" -> <<"s">>
      [] OTHER   -> <<c>>

\* str.upper for one character; U+00DF upper-cases to the two characters SS.
upper_char(c) ==
    CASE c = "a"  -> <<"A">>
      [] c = "b"  -> <<"B">>
      [] c = "s"  -> <<"S">>
      [] c = "ss" -> <<"S", "S">>
      [] OTHER    -> <<c>>

\* str.lower for a text.
RECURSIVE lower(_)
lower(s) == IF s = <<>> THEN <<>> ELSE lower_char(Head(s)) \o lower(Tail(s))

TextsUpTo(chars, n) == UNION {[1..k -> chars] : k \in 0..n}

Min(S) == CHOOSE x \in S : \A y \in S : x <= y

Range(s) == {s[k] : k \in 1..Len(s)}

\* ------------------------------------------------------------------ mock

\* The loop of MontyCog.mock over content[k..], with the flag `upper`.
RECURSIVE mock_loop(_, _)
mock_loop(content, upper) ==
    IF content = <<>> THEN <<>>
    ELSE LET c == Head(content) IN
         IF ~isalpha(c) THEN <<c>> \o mock_loop(Tail(content), upper)
         ELSE (IF upper THEN upper_char(c) ELSE lower_char(c))
                  \o mock_loop(Tail(content), ~upper)

\* A mock that starts with the flag set.
mock_starting_upper(content) == mock_loop(content, TRUE)

\* ''.join(mocked) of MontyCog.mock.
mock(content) == mock_loop(content, FALSE)

\* ------------------------------------------------------- term extraction

\* linked_terms_pattern.findall(text) from position pos on: the pattern
\* \[([^]]*)\] matches at the leftmost "[" that has a "]" after it, captures
\* what lies before the first such "]", and the scan resumes after it.
RECURSIVE findall_from(_, _)
findall_from(text, pos) ==
    IF pos > Len(text) THEN <<>>
    ELSE IF text[pos] # "[" THEN findall_from(text, pos + 1)
    ELSE LET closes == {q \in (pos + 1)..Len(text) : text[q] = "]"} IN
         IF closes = {} THEN findall_from(text, pos + 1)
         ELSE <<SubSeq(text, pos + 1, Min(closes) - 1)>>
                  \o findall_from(text, Min(closes) + 1)

linked_terms_pattern_findall(text) == findall_from(text, 1)

\* other_terms: the captures of the example, then those of the definition.
other_terms_example_first(definition, example) ==
    linked_terms_pattern_findall(example) \o linked_terms_pattern_findall(definition)

\* other_terms: the captures of the definition, then those of the example.
other_terms(definition, example) ==
    linked_terms_pattern_findall(definition) \o linked_terms_pattern_findall(example)

\* The loop over other_terms, without the check against processed_terms.
RECURSIVE retained_terms_no_skip(_, _)
retained_terms_no_skip(terms, processed_terms) ==
    IF terms = <<>> THEN <<>>
    ELSE <<lower(Head(terms))>> \o retained_terms_no_skip(Tail(terms), processed_terms)

\* The loop over other_terms, without the lower-casing of each term.
RECURSIVE retained_terms_no_lower(_, _)
retained_terms_no_lower(terms, processed_terms) ==
    IF terms = <<>> THEN <<>>
    ELSE LET other_term == Head(terms) IN
         IF other_term \in processed_terms
         THEN retained_terms_no_lower(Tail(terms), processed_terms)
         ELSE <<other_term>>
                  \o retained_terms_no_lower(Tail(terms), processed_terms \cup {other_term})

\* The loop over other_terms: each term is lower-cased, skipped when it is in
\* processed_terms, and otherwise gets a button and joins processed_terms.
\* The result is the terms that get a button, in order.
RECURSIVE retained_terms(_, _)
retained_terms(terms, processed_terms) ==
    IF terms = <<>> THEN <<>>
    ELSE LET other_term == lower(Head(terms)) IN
         IF other_term \in processed_terms
         THEN retained_terms(Tail(terms), processed_terms)
         ELSE <<other_term>>
                  \o retained_terms(Tail(terms), processed_terms \cup {other_term})

\* --------------------------------------------------------- the lookup flow

\* What the dictionary host may answer to one request: an empty body, a body
\* that is not JSON, a JSON object without `list`, or a JSON object whose
\* `list` holds the candidates (each with word, definition, example).
Candidate(w, d, e) == [word |-> w, definition |-> d, example |-> e]

\* The candidates the modelled host answers with.
Candidates ==
    {Candidate(<<"A">>, <<"[", "A", "]">>, <<"[", "a", "]">>),
     Candidate(<<"b">>, <<"[", "a", "]", "[", "b", "]">>, <<"[", "b", "]">>),
     Candidate(<<"b">>, <<>>, <<>>)}

Responses ==
    {[body |-> b, list |-> <<>>] : b \in {"empty", "notjson", "nolist", "json"}}
        \cup {[body |-> "json", list |-> <<c>>] : c \in Candidates}
        \cup {[body |-> "json",
               list |-> <<Candidate(<<"b">>, <<>>, <<>>),
                          Candidate(<<"A">>, <<"[", "A", "]">>, <<>>)>>]}

\* Terms a user may pass to the urban command.
CommandTerms == {<<"a">>, <<"b">>}

NoDefinition == [outcome |-> "none", word |-> <<>>, definition |-> <<>>, example |-> <<>>]
Raised == [outcome |-> "raise", word |-> <<>>, definition |-> <<>>, example |-> <<>>]
Unfetched == [outcome |-> "unfetched", word |-> <<>>, definition |-> <<>>, example |-> <<>>]

\* fetch_urban_dictionary_definition on the response read: None for an empty
\* body, the first candidate of `list` otherwise; json.loads, ['list'] and [0]
\* raise on a body that is not JSON, has no list, or has an empty list.
fetch_urban_dictionary_definition(response) ==
    IF response.body = "empty" THEN NoDefinition
    ELSE IF response.body # "json" \/ response.list = <<>> THEN Raised
    ELSE [outcome |-> "ok",
          word |-> Head(response.list).word,
          definition |-> Head(response.list).definition,
          example |-> Head(response.list).example]

\* A button whose trail lacks the headword just rendered.
button_with_stale_trail(btn_term, btn_previous_terms) ==
    [label |-> btn_term, term |-> btn_term,
     previous_terms |-> SubSeq(btn_previous_terms, 1, Len(btn_previous_terms) - 1)]

\* UbanDictionaryButton.__init__
UbanDictionaryButton(btn_term, btn_previous_terms) ==
    [label |-> btn_term, term |-> btn_term, previous_terms |-> btn_previous_terms]

\* A trail built with the new headword in front.
terms_to_get_here_prepended(trail, word) == <<word>> \o trail

\* terms_to_get_here = tuple(list(previous_terms) + [definition.word])
terms_to_get_here(trail, word) == trail \o <<word>>

\* " > ".join(terms)
RECURSIVE join(_)
join(terms) ==
    IF terms = <<>> THEN <<>>
    ELSE IF Len(terms) = 1 THEN terms[1]
    ELSE terms[1] \o <<" ", ">", " ">> \o join(Tail(terms))

\* A view whose buttons skip the terms of the trail in effect.
view_items_excluding_trail(definition, trail) ==
    LET retained == retained_terms(other_terms(definition.definition, definition.example),
                                   {lower(t) : t \in Range(trail)})
    IN  [k \in 1..Len(retained) |-> UbanDictionaryButton(retained[k], trail)]

\* The items added to the view: processed_terms starts empty, and each
\* retained term gets one button carrying the trail `trail`.
view_items(definition, trail) ==
    LET retained == retained_terms(other_terms(definition.definition, definition.example), {})
    IN  [k \in 1..Len(retained) |-> UbanDictionaryButton(retained[k], trail)]

FailureMessage == "Failed to get a definition"

NoReply == [content |-> "", has_embed |-> FALSE, title |-> <<>>, view |-> <<>>]

\* A handler that renders whatever the fetch returned, None included.
send_without_none_check(previous, definition) ==
    [content |-> "", has_embed |-> TRUE,
     title |-> <<"#", " ">> \o join(terms_to_get_here(previous, definition.word)),
     view |-> view_items(definition, terms_to_get_here(previous, definition.word))]

\* What send_urban_dictionary_definition passes to
\* interaction.response.send_message once the fetch has returned `definition`
\* (None or a record): the failure text, or the embed and the view.  Of the
\* embed's description only the first line, the title, is modelled.
send_urban_dictionary_definition(previous, definition) ==
    IF definition.outcome = "none"
    THEN [content |-> FailureMessage, has_embed |-> FALSE, title |-> <<>>, view |-> <<>>]
    ELSE [content |-> "", has_embed |-> TRUE,
          title |-> <<"#", " ">> \o join(terms_to_get_here(previous, definition.word)),
          view |-> view_items(definition, terms_to_get_here(previous, definition.word))]

\* ------------------------------------------------------------------ state

VARIABLES
    pc,              \* flow instance -> Unborn, Idle, Fetching, Rendered, NotFoundTerminal, Failed
    term,            \* flow instance -> the term it looks up
    previous_terms,  \* flow instance -> the trail it was triggered with
    origin,          \* flow instance -> the reply and button that triggered it (0, 0: the command)
    received,        \* flow instance -> the kind of body its fetch read ("" before)
    definition,      \* flow instance -> what its fetch returned
    reply,           \* flow instance -> what it passed to send_message
    requests,        \* flow instance -> number of conn.request calls
    sent,            \* flow instance -> number of send_message calls
    running,         \* the instance whose blocking fetch holds the event loop, or 0
    body,            \* extraction check: the definition text
    example,         \* extraction check: the example text
    seen,            \* extraction check: the initial processed_terms
    extracted,       \* extraction check: the retained terms
    stage,           \* extraction and mock checks: "input" or "done"
    content,         \* mock check: the message content
    mocked           \* mock check: the reply

flow_vars == <<pc, term, previous_terms, origin, received, definition, reply, requests, sent, running>>
extract_vars == <<body, example, seen, extracted>>
mock_vars == <<content, mocked>>
vars == <<flow_vars, extract_vars, mock_vars, stage>>

Instances == 1..MaxInstances

FlowInit ==
    /\ pc = [i \in Instances |-> "Unborn"]
    /\ term = [i \in Instances |-> <<>>]
    /\ previous_terms = [i \in Instances |-> <<>>]
    /\ origin = [i \in Instances |-> [from |-> 0, button |-> 0]]
    /\ received = [i \in Instances |-> ""]
    /\ definition = [i \in Instances |-> Unfetched]
    /\ reply = [i \in Instances |-> NoReply]
    /\ requests = [i \in Instances |-> 0]
    /\ sent = [i \in Instances |-> 0]
    /\ running = 0

ExtractIdle ==
    /\ body = <<>>
    /\ example = <<>>
    /\ seen = {}
    /\ extracted = <<>>

MockIdle ==
    /\ content = <<>>
    /\ mocked = <<>>

\* ---------------------------------------------------------- flow actions

NextInstance(i) == pc[i] = "Unborn" /\ \A j \in Instances : j < i => pc[j] # "Unborn"

\* MontyCog.urban: the command enters the flow with an empty trail.
urban(i, t) ==
    /\ NextInstance(i)
    /\ pc' = [pc EXCEPT ![i] = "Idle"]
    /\ term' = [term EXCEPT ![i] = t]
    /\ previous_terms' = [previous_terms EXCEPT ![i] = <<>>]
    /\ origin' = [origin EXCEPT ![i] = [from |-> 0, button |-> 0]]
    /\ UNCHANGED <<received, definition, reply, requests, sent, running>>
    /\ UNCHANGED <<extract_vars, mock_vars, stage>>

\* A callback that sends the instance that rendered the button back to its
\* fetch instead of starting a new instance.
callback_resuming(i, j, k) ==
    /\ NextInstance(i)
    /\ pc[j] = "Rendered"
    /\ k \in 1..Len(reply[j].view)
    /\ pc' = [pc EXCEPT ![j] = "Idle"]
    /\ term' = [term EXCEPT ![j] = reply[j].view[k].term]
    /\ previous_terms' = [previous_terms EXCEPT ![j] = reply[j].view[k].previous_terms]
    /\ UNCHANGED <<origin, received, definition, reply, requests, sent, running>>
    /\ UNCHANGED <<extract_vars, mock_vars, stage>>

\* UbanDictionaryButton.callback: button k of the reply of instance j enters
\* the flow with the term and the trail the button stores.
callback(i, j, k) ==
    /\ NextInstance(i)
    /\ pc[j] = "Rendered"
    /\ k \in 1..Len(reply[j].view)
    /\ pc' = [pc EXCEPT ![i] = "Idle"]
    /\ term' = [term EXCEPT ![i] = reply[j].view[k].term]
    /\ previous_terms' = [previous_terms EXCEPT ![i] = reply[j].view[k].previous_terms]
    /\ origin' = [origin EXCEPT ![i] = [from |-> j, button |-> k]]
    /\ UNCHANGED <<received, definition, reply, requests, sent, running>>
    /\ UNCHANGED <<extract_vars, mock_vars, stage>>

\* The event loop runs the handler up to the fetch: conn.request and
\* conn.getresponse are blocking calls of http.client made without an await,
\* so the handler holds the event loop until the response is read.
start_fetch(i) ==
    /\ pc[i] = "Idle"
    /\ running = 0
    /\ pc' = [pc EXCEPT ![i] = "Fetching"]
    /\ requests' = [requests EXCEPT ![i] = @ + 1]
    /\ running' = i
    /\ UNCHANGED <<term, previous_terms, origin, received, definition, reply, sent>>
    /\ UNCHANGED <<extract_vars, mock_vars, stage>>

\* The response is read and the handler runs to its end: an exception of the
\* fetch leaves the handler without a reply; otherwise one send_message.
fetch_returns(i, response) ==
    LET d == fetch_urban_dictionary_definition(response) IN
    /\ pc[i] = "Fetching"
    /\ running = i
    /\ received' = [received EXCEPT ![i] = response.body]
    /\ definition' = [definition EXCEPT ![i] = d]
    /\ pc' = [pc EXCEPT ![i] = CASE d.outcome = "raise" -> "Failed"
                                 [] d.outcome = "none" -> "NotFoundTerminal"
                                 [] OTHER -> "Rendered"]
    /\ reply' = [reply EXCEPT ![i] =
                    IF d.outcome = "raise" THEN NoReply
                    ELSE send_urban_dictionary_definition(previous_terms[i], d)]
    /\ sent' = [sent EXCEPT ![i] = IF d.outcome = "raise" THEN @ ELSE @ + 1]
    /\ running' = 0
    /\ UNCHANGED <<term, previous_terms, origin, requests>>
    /\ UNCHANGED <<extract_vars, mock_vars, stage>>

Init ==
    /\ FlowInit
    /\ ExtractIdle
    /\ MockIdle
    /\ stage = "input"

Next ==
    \/ \E i \in Instances, t \in CommandTerms : urban(i, t)
    \/ \E i, j \in Instances : \E k \in 1..MaxInstances * 2 : callback(i, j, k)
    \/ \E i \in Instances : start_fetch(i)
    \/ \E i \in Instances, r \in Responses : fetch_returns(i, r)

Spec == Init /\ [][Next]_vars

\* The event loop runs every handler that is ready; the dictionary host owes
\* no answer, so no fairness is assumed of fetch_returns.
FairSpec == Spec /\ \A i \in Instances : WF_vars(start_fetch(i))

\* -------------------------------------------------- extraction check spec

ExtractInit ==
    /\ FlowInit
    /\ MockIdle
    /\ body \in TextsUpTo(TermChars, MaxBody)
    /\ example \in TextsUpTo(TermChars, MaxExample)
    /\ seen = {}
    /\ extracted = <<>>
    /\ stage = "input"

SeenSets == SUBSET {<<"a">>, <<>>}

\* The cross-reference loop of send_urban_dictionary_definition on the texts,
\* started from the processed_terms `s` (the code starts from the empty set).
extract(s) ==
    /\ stage = "input"
    /\ seen' = s
    /\ extracted' = retained_terms(other_terms(body, example), s)
    /\ stage' = "done"
    /\ UNCHANGED <<body, example, flow_vars, mock_vars>>

ExtractNext == \E s \in SeenSets : extract(s)

ExtractSpec == ExtractInit /\ [][ExtractNext]_vars

\* -------------------------------------------------------- mock check spec

MockInit ==
    /\ FlowInit
    /\ ExtractIdle
    /\ content \in TextsUpTo(MockChars, MaxContent)
    /\ mocked = <<>>
    /\ stage = "input"

\* MontyCog.mock on the message content.
mock_message ==
    /\ stage = "input"
    /\ mocked' = mock(content)
    /\ stage' = "done"
    /\ UNCHANGED <<content, flow_vars, extract_vars>>

MockNext == mock_message

MockSpec == MockInit /\ [][MockNext]_vars

\* ================================================================ claims

Rendered(i) == pc[i] = "Rendered"

\* The cross-references of the definition instance i rendered, as captured.
Captures(i) == other_terms(definition[i].definition, definition[i].example)

\* The headwords of the definitions rendered along the navigation path that
\* leads to instance i, oldest first.
RECURSIVE PathWords(_)
PathWords(i) ==
    IF origin[i].from = 0 THEN <<definition[i].word>>
    ELSE PathWords(origin[i].from) \o <<definition[i].word>>

RECURSIVE Depth(_)
Depth(i) == IF origin[i].from = 0 THEN 1 ELSE Depth(origin[i].from) + 1

\* C1: every follow-up action of a rendered reply carries the incoming trail
\* with the fetched headword appended as last element, and its label is its
\* target term.
C1_ActionTrail ==
    \A i \in Instances : Rendered(i) =>
        \A k \in 1..Len(reply[i].view) :
            /\ reply[i].view[k].previous_terms = previous_terms[i] \o <<definition[i].word>>
            /\ reply[i].view[k].label = reply[i].view[k].term

C1_Witness ==
    \E i \in Instances :
        /\ Rendered(i)
        /\ previous_terms[i] # <<>>
        /\ Len(reply[i].view) >= 2

\* C2: the title of the reply at depth n shows exactly the headwords of the n
\* definitions rendered along the navigation path, oldest first; and no step
\* changes a reply already sent (nor the trails its actions hold).
C2_TitleIsPath ==
    \A i \in Instances : Rendered(i) =>
        /\ reply[i].title = <<"#", " ">> \o join(PathWords(i))
        /\ Len(PathWords(i)) = Depth(i)
        /\ Len(previous_terms[i]) = Depth(i) - 1
        /\ \A k \in 1..Len(reply[i].view) :
               reply[i].view[k].previous_terms = PathWords(i)

C2_RepliesKept ==
    \A i \in Instances : pc[i] \in {"Rendered", "NotFoundTerminal"} => reply'[i] = reply[i]

C2_TrailIsPath == []C2_TitleIsPath /\ [][C2_RepliesKept]_vars

C2_Witness ==
    \E i \in Instances :
        /\ Rendered(i)
        /\ Depth(i) = 3
        /\ PathWords(i) = <<<<"A">>, <<"b">>, <<"A">>>>

\* C4: a step whose fetch read an empty body ends in NotFoundTerminal with the
\* fixed failure message, no embed, no follow-up action and no trail.
C4_NotFound ==
    \A i \in Instances : received[i] = "empty" =>
        /\ pc[i] = "NotFoundTerminal"
        /\ sent[i] = 1
        /\ reply[i].content = FailureMessage
        /\ ~reply[i].has_embed
        /\ reply[i].title = <<>>
        /\ reply[i].view = <<>>

C4_Witness ==
    \E i, j \in Instances :
        /\ received[i] = "empty" /\ origin[i].from = 0
        /\ received[j] = "empty" /\ origin[j].from # 0

\* C5 (as claimed): no follow-up action targets a term equal, after
\* lower-casing, to the headword just rendered or to a term of the trail.
C5_NoTargetOnTrail ==
    \A i \in Instances : Rendered(i) =>
        \A k \in 1..Len(reply[i].view) :
            reply[i].view[k].term \notin
                {lower(t) : t \in Range(previous_terms[i] \o <<definition[i].word>>)}

\* C5 (amended): only the duplicates within one render are dropped: every
\* captured cross-reference is, lower-cased, the target of a follow-up action,
\* also when it equals the headword just rendered or a term of the trail.
C5_EveryReferenceKept ==
    \A i \in Instances : Rendered(i) =>
        \A n \in 1..Len(Captures(i)) :
            \E k \in 1..Len(reply[i].view) : reply[i].view[k].term = lower(Captures(i)[n])

C5_Witness ==
    \E i \in Instances :
        /\ Rendered(i)
        /\ previous_terms[i] # <<>>
        /\ \E k \in 1..Len(reply[i].view) :
               /\ reply[i].view[k].term = lower(definition[i].word)
               /\ reply[i].view[k].term \in {lower(t) : t \in Range(previous_terms[i])}

\* C8: the life of a flow instance.
C8_Counts ==
    \A i \in Instances :
        /\ requests[i] = (IF pc[i] \in {"Unborn", "Idle"} THEN 0 ELSE 1)
        /\ sent[i] = (IF pc[i] \in {"Rendered", "NotFoundTerminal"} THEN 1 ELSE 0)

C8_Order(ends) ==
    \A i \in Instances : pc'[i] # pc[i] =>
        \/ pc[i] = "Unborn" /\ pc'[i] = "Idle"
        \/ pc[i] = "Idle" /\ pc'[i] = "Fetching"
        \/ pc[i] = "Fetching" /\ pc'[i] \in ends

C8_Fresh ==
    \A i \in Instances : pc[i] = "Unborn" /\ pc'[i] # "Unborn" =>
        /\ \A j \in Instances \ {i} : pc'[j] = pc[j]
        /\ origin'[i].from = 0 => previous_terms'[i] = <<>>
        /\ origin'[i].from # 0 =>
               LET b == reply[origin'[i].from].view[origin'[i].button] IN
               /\ pc[origin'[i].from] = "Rendered"
               /\ term'[i] = b.term
               /\ previous_terms'[i] = b.previous_terms

\* C8 (as claimed): every instance goes Idle, Fetching, then Rendered or
\* NotFoundTerminal and nowhere else; one fetch, at most one reply; a follow-up
\* starts a fresh instance.
C8_RenderedOrNotFound ==
    []C8_Counts /\ [][C8_Order({"Rendered", "NotFoundTerminal"}) /\ C8_Fresh]_vars

\* C8 (amended): as claimed, except that a step whose response is malformed
\* ends in a third way, the uncaught error, having sent no reply.
C8_Lifecycle ==
    []C8_Counts /\ [][C8_Order({"Rendered", "NotFoundTerminal", "Failed"}) /\ C8_Fresh]_vars

C8_Witness ==
    \E i, j, k \in Instances :
        /\ Rendered(i)
        /\ origin[j].from = i /\ pc[j] = "NotFoundTerminal"
        /\ pc[k] = "Failed"

\* C9: a step whose fetch never completes does not hold back another step:
\* every triggered step gets to issue its own fetch.
C9_OtherStepsProceed ==
    \A j \in Instances : (pc[j] = "Idle") ~> (pc[j] # "Idle")

\* ------------------------------------------------------ extraction claims

Done == stage = "done"

AllCaptures == other_terms(body, example)

HasBracketPair(text) ==
    \E p, q \in 1..Len(text) : p < q /\ text[p] = "[" /\ text[q] = "]"

\* Index of the first capture that lower-cases to t.
FirstCapture(t) == Min({n \in 1..Len(AllCaptures) : lower(AllCaptures[n]) = t})

\* C3: the extraction returns no term of the exclusion set, no term twice,
\* the terms in the order of their first appearance, and nothing for texts
\* without a bracket pair.
C3_Extraction ==
    Done =>
        /\ \A k \in 1..Len(extracted) :
               /\ extracted[k] \notin seen
               /\ \E n \in 1..Len(AllCaptures) : lower(AllCaptures[n]) = extracted[k]
        /\ \A j, k \in 1..Len(extracted) : j < k =>
               /\ extracted[j] # extracted[k]
               /\ FirstCapture(extracted[j]) < FirstCapture(extracted[k])
        /\ (~HasBracketPair(body) /\ ~HasBracketPair(example)) => extracted = <<>>

C3_Witness ==
    /\ Done
    /\ seen = {<<"a">>}
    /\ body = <<"[", "]", "a">>
    /\ example = <<"[", "A", "]">>
    /\ extracted = << <<>> >>

\* C6: one follow-up per distinct lower-cased bracketed term of the body and
\* the example taken together.
C6_OnePerDistinctTerm ==
    (Done /\ seen = {}) =>
        /\ Len(extracted) = Cardinality({lower(t) : t \in Range(AllCaptures)})
        /\ Range(extracted) = {lower(t) : t \in Range(AllCaptures)}

C6_Witness ==
    /\ Done
    /\ seen = {}
    /\ body = <<"[", "A", "]">>
    /\ example = <<"[", "a", "]">>
    /\ extracted = << <<"a">> >>

ConcatenatedExtraction == retained_terms(linked_terms_pattern_findall(body \o example), {})

\* Every "[" of the text has a "]" after it.
EveryBracketClosed(text) ==
    \A p \in 1..Len(text) : text[p] = "[" => \E q \in (p + 1)..Len(text) : text[q] = "]"

\* C7 (as claimed): the follow-up terms are the extraction over the single
\* text body + example.
C7_AsConcatenation == (Done /\ seen = {}) => extracted = ConcatenatedExtraction

\* C7 (amended): they are, provided no "[" of the body is left open at its end
\* or the example holds no "]"; the body and the example are scanned apart.
C7_ScannedApart ==
    (Done /\ seen = {} /\ (EveryBracketClosed(body) \/ "]" \notin Range(example)))
        => extracted = ConcatenatedExtraction

C7_Witness ==
    /\ Done
    /\ seen = {}
    /\ body = <<"[", "a", "]">>
    /\ example = <<"[", "]", "[">>
    /\ extracted = << <<"a">>, <<>> >>

\* ------------------------------------------------------------ mock claim

\* Number of alphabetic characters among content[1..k].
AlphaCount(k) == Cardinality({j \in 1..k : isalpha(content[j])})

\* What the k-th character of the content becomes.
Piece(k) ==
    IF ~isalpha(content[k]) THEN <<content[k]>>
    ELSE IF AlphaCount(k) % 2 = 1 THEN lower_char(content[k])
    ELSE upper_char(content[k])

RECURSIVE PiecesFrom(_)
PiecesFrom(k) == IF k > Len(content) THEN <<>> ELSE Piece(k) \o PiecesFrom(k + 1)

SamePositions ==
    /\ Len(mocked) = Len(content)
    /\ \A k \in 1..Len(content) : <<mocked[k]>> = Piece(k)

\* C10 (as claimed): the reply has the length of the content, position by
\* position the non-alphabetic character unchanged or the letter in
\* alternating case, lower case first.
C10_SameLength == Done => SamePositions

\* C10 (amended): the reply is the concatenation of one piece per character;
\* it has the same length, position by position, whenever each piece is one
\* character long.
C10_Pieces ==
    Done =>
        /\ mocked = PiecesFrom(1)
        /\ (\A k \in 1..Len(content) : Len(Piece(k)) = 1) => SamePositions

C10_Witness ==
    /\ Done
    /\ content = <<"A", "1", "a", "A">>
    /\ mocked = <<"a", "1", "A", "a">>

====
